---- MODULE Spec2Model ----
(***************************************************************************)
(* A model of CNTK::Trainer (Source/CNTKv2LibraryDll/Trainer.cpp): the     *)
(* constructor's learner-coverage check, the TrainMinibatch orchestration  *)
(* of Forward, Backward and the learners' Update, and the checkpoint       *)
(* save / restore pair.                                                    *)
(*                                                                         *)
(* The computation graph, the learners and the model (de)serialisation     *)
(* are collaborators that live outside Trainer.cpp; they are modelled by   *)
(* the little the trainer relies on, and say so where they are defined.    *)
(***************************************************************************)
EXTENDS Integers, FiniteSets, Sequences, TLC

\* ---------------------------------------------------------------- bounds
NumParams == 2        \* parameters of the universe, Params == 1..NumParams
NumLearners == 2      \* learner objects of the universe
NumValues == 2        \* abstract tensor values 0..NumValues-1
MaxSamples == 1       \* samples a minibatch's data array can hold
MaxMinibatches == 3   \* minibatches a learner has counted when a run with checkpoints stops training
MaxTrainCalls == 1    \* TrainMinibatch calls of a run that only trains
NumPaths == 1         \* model file paths a checkpoint call may name

Params == 1..NumParams
Learners == 1..NumLearners
Values == 0..(NumValues - 1)

VARIABLES
    ctorArgs,                   \* arguments of the last Trainer constructor call
    ctorOutcome,                \* how that call ended
    m_parameterLearners,        \* Trainer::m_parameterLearners
    learnerParameters,          \* learner -> learner->Parameters()
    hasPastValue,               \* the model holds a PastValue with a scalar constant initial state
    leafValue,                  \* uid -> value of the trainer model's parameters and constants
    learnerState,               \* learner -> its checkpointable state (minibatches seen)
    m_prevMinibatchNumSamples,  \* Trainer::m_prevMinibatchNumSamples
    callLog,                    \* collaborator calls made by the last call, if a TrainMinibatch, in order
    lastCall,                   \* the last trainer call: operation, arguments, outcome
    fs,                         \* the file system: path -> file content
    saved                       \* path -> what the trainer held when SaveCheckpoint(path) last returned

vars == <<ctorArgs, ctorOutcome, m_parameterLearners, learnerParameters, hasPastValue,
          leafValue, learnerState, m_prevMinibatchNumSamples, callLog, lastCall, fs, saved>>

\* ------------------------------------------------------------ constructor
\* The arguments of Trainer::Trainer.  A function is given by the parameters
\* it holds; the evaluation function may be absent (the 3-argument overload
\* passes nullptr).  cover[l] is learner l's Parameters().
CtorArgSets ==
    { a \in [model : SUBSET Params, loss : SUBSET Params, hasEval : BOOLEAN,
             eval : SUBSET Params, learners : SUBSET Learners,
             cover : [Learners -> SUBSET Params]] :
        /\ (~a.hasEval => a.eval = {})
        /\ \A l \in Learners \ a.learners : a.cover[l] = {} }

\* m_combinedTrainingFunction->Parameters(): the parameters of
\* Combine({model, lossFunction, evaluationFunction}).
CombinedParameters(a) ==
    a.model \cup a.loss \cup (IF a.hasEval THEN a.eval ELSE {})

\* The insert loop of the constructor: some parameter is inserted a second time.
CoveredTwice(learners, cover) ==
    \E l1, l2 \in learners : l1 # l2 /\ cover[l1] \cap cover[l2] # {}

\* learnerParameters once the loop is through.
LearnerParameterUnion(learners, cover) == UNION { cover[l] : l \in learners }

\* A constructor that forgot the per-parameter insert check.
TrainerCtorNoInsertCheck(modelParameters, learners, cover) ==
    IF modelParameters # LearnerParameterUnion(learners, cover)
    THEN "InvalidArgument:union" ELSE "ok"

\* The outcome of Trainer::Trainer.
TrainerCtor(modelParameters, learners, cover) ==
    IF CoveredTwice(learners, cover) THEN "InvalidArgument:covered-twice"
    ELSE IF modelParameters # LearnerParameterUnion(learners, cover)
         THEN "InvalidArgument:union"
         ELSE "ok"

IsInvalidArgument(outcome) ==
    outcome \in {"InvalidArgument:covered-twice", "InvalidArgument:union",
                 "InvalidArgument:leaves"}

NoArgs == [model |-> {}, loss |-> {}, hasEval |-> FALSE, eval |-> {},
           learners |-> {}, cover |-> [l \in Learners |-> {}]]

\* ------------------------------------------------- the model's leaf variables
\* Uids.  Parameter p has uid p; the other leaves of the trainer's model follow.
InputUid == NumParams + 1       \* the input variable (features)
ConstUid == NumParams + 2       \* a constant tensor
InitStateUid == NumParams + 3   \* scalar constant, initial state of a PastValue
ExtraUid == NumParams + 4       \* a uid the trainer's model does not use

Shapes == { <<>>, <<1>>, <<2>> }
Kinds == { "Input", "Parameter", "Constant" }
DataTypes == { "Float", "Double" }

MkLeaf(uid, kind, shape, dyn, grad) ==
    [uid |-> uid, kind |-> kind, shape |-> shape, dataType |-> "Float",
     numDynamicAxes |-> dyn, needsGradient |-> grad, isSparse |-> FALSE]

\* m_combinedTrainingFunction->Inputs()
TrainerLeaves(pastValue) ==
    { MkLeaf(p, "Parameter", <<2>>, 0, TRUE) : p \in Params }
      \cup { MkLeaf(InputUid, "Input", <<2>>, 2, FALSE),
             MkLeaf(ConstUid, "Constant", <<2>>, 0, FALSE) }
      \cup (IF pastValue THEN { MkLeaf(InitStateUid, "Constant", <<>>, 0, FALSE) } ELSE {})

\* The uids of the leaves that hold a value (Variable::IsParameter or IsConstant).
ValuedUids(leaves) == { x.uid : x \in { y \in leaves : y.kind \in {"Parameter", "Constant"} } }

\* The trainer's combined function as RestoreFromCheckpoint reads it: its
\* leaves, their values, and Inputs()[1] of each PastValue / FutureValue
\* primitive function.
TrainerFunction(pastValue, value) ==
    [leaves |-> TrainerLeaves(pastValue), value |-> value,
     pastValueInit |-> IF pastValue THEN {InitStateUid} ELSE {}]

LeafOf(f, uid) == CHOOSE x \in f.leaves : x.uid = uid

\* NDShape::TotalSize: the product of the dimensions.
RECURSIVE TotalSize(_)
TotalSize(shape) == IF shape = <<>> THEN 1 ELSE Head(shape) * TotalSize(Tail(shape))

\* AsTensorShape (Utils.h): a tensor shape has at least one axis; missing axes are 1.
AsTensorShape(shape) == IF shape = <<>> THEN <<1>> ELSE shape

\* ------------------------------------------------------------ initial states
NoFile == [kind |-> "none", leaves |-> {}, value |-> <<>>, pastValueInit |-> {},
           scalarInit |-> <<>>, state |-> 0]

NoSnapshot == [valid |-> FALSE, value |-> <<>>, state |-> 0]

NoCall == [op |-> "none", path |-> 0, outcome |-> "none", ret |-> FALSE,
           numSamples |-> 0, roundTrip |-> NoSnapshot, before |-> NoSnapshot]

\* The files a call can touch: a model path p and its trainer-state path.
FilePaths == 0..NumPaths

\* Before any trainer is constructed.
InitCtor ==
    /\ ctorArgs = NoArgs
    /\ ctorOutcome = "none"
    /\ m_parameterLearners = {}
    /\ learnerParameters = [l \in Learners |-> {}]
    /\ hasPastValue = FALSE
    /\ leafValue = <<>>
    /\ learnerState = [l \in Learners |-> 0]
    /\ m_prevMinibatchNumSamples = 0
    /\ callLog = <<>>
    /\ lastCall = NoCall
    /\ fs = [p \in FilePaths |-> NoFile]
    /\ saved = [p \in FilePaths |-> NoSnapshot]

\* Trainer::Trainer(model, lossFunction, evaluationFunction, parameterLearners)
Construct(a) ==
    LET outcome == TrainerCtor(CombinedParameters(a), a.learners, a.cover) IN
    /\ ctorArgs' = a
    /\ ctorOutcome' = outcome
    /\ m_parameterLearners' = IF outcome = "ok" THEN a.learners ELSE {}
    /\ learnerParameters' = IF outcome = "ok" THEN a.cover ELSE [l \in Learners |-> {}]
    /\ m_prevMinibatchNumSamples' = IF outcome = "ok" THEN 1 ELSE 0
    /\ UNCHANGED <<hasPastValue, leafValue, learnerState, callLog, lastCall, fs, saved>>

\* A constructor runs once per object.
NextCtor == ctorOutcome = "none" /\ \E a \in CtorArgSets : Construct(a)

SpecCtor == InitCtor /\ [][NextCtor]_vars

\* A trainer whose construction succeeded, over a model whose combined
\* function holds every parameter of Params, before its first call.
Init ==
    /\ \E learners \in SUBSET Learners, cover \in [Learners -> SUBSET Params] :
          /\ \A l \in Learners \ learners : cover[l] = {}
          /\ TrainerCtor(Params, learners, cover) = "ok"
          /\ ctorArgs = [model |-> Params, loss |-> Params, hasEval |-> FALSE, eval |-> {},
                         learners |-> learners, cover |-> cover]
          /\ m_parameterLearners = learners
          /\ learnerParameters = cover
    /\ ctorOutcome = "ok"
    /\ hasPastValue \in BOOLEAN
    /\ leafValue = [u \in ValuedUids(TrainerLeaves(hasPastValue)) |-> 0]
    /\ learnerState = [l \in Learners |-> 0]
    /\ m_prevMinibatchNumSamples = 1
    /\ callLog = <<>>
    /\ lastCall = NoCall
    /\ fs = [p \in FilePaths |-> NoFile]
    /\ saved = [p \in FilePaths |-> NoSnapshot]

\* C1 (as stated): construction succeeds exactly when the union of the
\* learners' parameters equals the model's parameters (read as the code reads
\* them: the parameters of the combined training function), and raises
\* InvalidArgument otherwise.
C1_AsStated ==
    ctorOutcome # "none" =>
        /\ (ctorOutcome = "ok") <=>
              (UNION { ctorArgs.cover[l] : l \in ctorArgs.learners }
                 = ctorArgs.model \cup ctorArgs.loss \cup ctorArgs.eval)
        /\ ctorOutcome # "ok" => IsInvalidArgument(ctorOutcome)

\* C1 (amended): construction succeeds exactly when no parameter is covered
\* by two of the learners and the union of the learners' parameters equals
\* the parameters of the function that combines the model, the loss and the
\* evaluation function; otherwise it raises InvalidArgument and no trainer
\* is produced.
C1_CtorSucceedsIff ==
    ctorOutcome # "none" =>
        /\ (ctorOutcome = "ok") <=>
              /\ \A l1, l2 \in ctorArgs.learners :
                    l1 # l2 => ctorArgs.cover[l1] \cap ctorArgs.cover[l2] = {}
              /\ UNION { ctorArgs.cover[l] : l \in ctorArgs.learners }
                   = ctorArgs.model \cup ctorArgs.loss \cup ctorArgs.eval
        /\ ctorOutcome # "ok" =>
              /\ IsInvalidArgument(ctorOutcome)
              /\ m_parameterLearners = {}
              /\ m_prevMinibatchNumSamples = 0
        /\ ctorOutcome = "ok" =>
              /\ m_parameterLearners = ctorArgs.learners
              /\ m_prevMinibatchNumSamples = 1

\* C1 witness: two learners that share a parameter and whose union is the
\* model's parameter set were passed, and the constructor raised.
C1_Witness ==
    /\ ctorOutcome = "InvalidArgument:covered-twice"
    /\ ctorArgs.model # {}
    /\ ctorArgs.loss \subseteq ctorArgs.model
    /\ ctorArgs.eval \subseteq ctorArgs.model
    /\ LearnerParameterUnion(ctorArgs.learners, ctorArgs.cover) = ctorArgs.model

\* ------------------------------------------------------------ TrainMinibatch
\* The orders in which a range-for may visit the unordered_set m_parameterLearners.
IterationOrders(S) ==
    { o \in [1..Cardinality(S) -> S] : \A i, j \in 1..Cardinality(S) : o[i] = o[j] => i = j }

\* GetSampleCountFromArguments: the samples the data array holds less the
\* masked ones; more masked values than samples is a LogicError.
GetSampleCountFromArguments(numSamplesInDataArrayView, numMaskedSamples) ==
    IF numMaskedSamples > numSamplesInDataArrayView
    THEN [error |-> "LogicError", count |-> 0]
    ELSE [error |-> "none", count |-> numSamplesInDataArrayView - numMaskedSamples]

\* One entry of callLog.
LogEntry(call, learner, params, numSamples, result) ==
    [call |-> call, learner |-> learner, params |-> params,
     numSamples |-> numSamples, result |-> result]

\* Learner::Update, as far as the trainer relies on it: a learner that reports
\* an update has moved the parameters it was handed gradients for.
LearnerUpdateValue(value, gradientParams, updated) ==
    [u \in DOMAIN value |->
        IF updated /\ u \in gradientParams THEN (value[u] + 1) % NumValues ELSE value[u]]

\* An accumulation that stops calling Update once one learner has reported an update.
UpdateIsCalledShortCircuit(anyUpdatesPerformed) == ~anyUpdatesPerformed

\* anyUpdatesPerformed |= learner->Update(...): |= evaluates its right operand
\* whatever anyUpdatesPerformed holds.
UpdateIsCalled(anyUpdatesPerformed) == TRUE

\* The learner loop of TrainMinibatch, from the learners still to visit.
\* st: the log, anyUpdatesPerformed, the parameter values, the learners' states
\* and the error raised, if any.  in: what Backward and the learners produce.
RECURSIVE LearnerLoop(_, _, _, _)
LearnerLoop(order, cover, in, st) ==
    IF order = <<>> THEN st
    ELSE LET learner == Head(order)
             \* learnerParameterGradients, filled parameter by parameter
             learnerParameterGradients == { p \in in.modelParameters : p \in cover[learner] }
         IN  IF \E p \in cover[learner] : p = in.maskedGradient
             THEN [st EXCEPT !.error = "LogicError"]
             ELSE IF ~UpdateIsCalled(st.any)
             THEN LearnerLoop(Tail(order), cover, in, st)
             ELSE LearnerLoop(Tail(order), cover, in,
                     [log |-> Append(st.log,
                                 LogEntry("Update", learner, learnerParameterGradients,
                                          in.numSamples, learner \in in.updated)),
                      any |-> (st.any \/ learner \in in.updated),
                      value |-> LearnerUpdateValue(st.value, learnerParameterGradients,
                                                  learner \in in.updated),
                      state |-> [st.state EXCEPT ![learner] = @ + 1],
                      error |-> st.error])

\* Trainer::TrainMinibatch(arguments, computeDevice).
\*   capacity, masked : the data array and mask of the argument the sample count is read from
\*   maskedGradient   : the parameter whose gradient Backward returned with a mask (0: none)
\*   order            : the iteration order of m_parameterLearners
\*   updated          : the learners whose Update returns true
TrainMinibatch(capacity, masked, maskedGradient, order, updated) ==
    LET sampleCount == GetSampleCountFromArguments(capacity, masked)
        numSamples == sampleCount.count
        modelParameters == CombinedParameters(ctorArgs)
        start == [log |-> << LogEntry("Forward", 0, {}, 0, FALSE),
                             LogEntry("Backward", 0, modelParameters, 0, FALSE) >>,
                  any |-> FALSE, value |-> leafValue, state |-> learnerState,
                  error |-> "none"]
        \* the count is taken after Backward; when it throws, the learner loop is
        \* not entered and m_prevMinibatchNumSamples keeps its value
        end == IF sampleCount.error # "none"
               THEN [start EXCEPT !.error = sampleCount.error]
               ELSE LearnerLoop(order, learnerParameters,
                           [modelParameters |-> modelParameters, maskedGradient |-> maskedGradient,
                            numSamples |-> numSamples, updated |-> updated],
                           start)
    IN  /\ ctorOutcome = "ok"
        /\ m_prevMinibatchNumSamples' = IF sampleCount.error # "none"
                                        THEN m_prevMinibatchNumSamples ELSE numSamples
        /\ callLog' = end.log
        /\ leafValue' = end.value
        /\ learnerState' = end.state
        /\ lastCall' = [op |-> "TrainMinibatch", path |-> 0,
                        outcome |-> IF end.error = "none" THEN "returned" ELSE end.error,
                        ret |-> (end.error = "none" /\ end.any),
                        numSamples |-> numSamples, roundTrip |-> NoSnapshot,
                        before |-> NoSnapshot]
        /\ UNCHANGED <<ctorArgs, ctorOutcome, m_parameterLearners, learnerParameters,
                       hasPastValue, fs, saved>>

\* The minibatches offered: a data array of MaxSamples samples and a mask that
\* masks some of them, or one value more than the array holds; Backward
\* returns the gradients unmasked, or that of parameter 1 with a mask.
TrainCall ==
    \E masked \in 0..(MaxSamples + 1), maskedGradient \in {0, 1} :
      \E order \in IterationOrders(m_parameterLearners),
         updated \in SUBSET m_parameterLearners :
        TrainMinibatch(MaxSamples, masked, maskedGradient, order, updated)

\* The learners' counters bound a run; the trainer itself never refuses a call.
MinibatchesBelow(limit) == \A l \in m_parameterLearners : learnerState[l] < limit

NextTrain == MinibatchesBelow(MaxTrainCalls) /\ TrainCall

\* TrainMinibatch alone, over a model without recurrence.
InitTrain == Init /\ ~hasPastValue

SpecTrain == InitTrain /\ [][NextTrain]_vars

UpdateEntries == { i \in 1..Len(callLog) : callLog[i].call = "Update" }

\* C2: a TrainMinibatch call that returns has run Forward, then Backward, then
\* Update exactly once on every learner of the trainer, each with gradients
\* for exactly the learner's parameters and with the minibatch's sample
\* count; it returns true exactly when some Update returned true.
C2_TrainMinibatchOrder ==
    (lastCall.op = "TrainMinibatch" /\ lastCall.outcome = "returned") =>
        /\ Len(callLog) = 2 + Cardinality(m_parameterLearners)
        /\ callLog[1].call = "Forward"
        /\ callLog[2].call = "Backward"
        /\ UpdateEntries = 3..Len(callLog)
        /\ \A l \in m_parameterLearners :
              Cardinality({ i \in UpdateEntries : callLog[i].learner = l }) = 1
        /\ \A i \in UpdateEntries :
              /\ callLog[i].learner \in m_parameterLearners
              /\ callLog[i].params = learnerParameters[callLog[i].learner]
              /\ callLog[i].numSamples = lastCall.numSamples
              /\ callLog[i].numSamples = m_prevMinibatchNumSamples
        /\ lastCall.ret <=> (\E i \in UpdateEntries : callLog[i].result)

\* C2 witness: a returned call over two learners in which the first Update
\* reported an update and the second, still called, did not.
C2_Witness ==
    /\ lastCall.op = "TrainMinibatch" /\ lastCall.outcome = "returned"
    /\ Cardinality(m_parameterLearners) >= 2
    /\ Len(callLog) >= 4
    /\ callLog[3].result /\ ~callLog[4].result
    /\ lastCall.ret

\* ------------------------------------------------------------ checkpoint files
\* A model path is a base name followed by p suffixes ".ckp" (p \in ModelPaths),
\* so appending the extension names the next path.
ModelPaths == 0..(NumPaths - 1)

GetTrainerStateCheckpointFilePath(modelFilePath) == modelFilePath + 1

LeafUids(f) == { x.uid : x \in f.leaves }

\* The initial-state inputs of PastValue / FutureValue functions that are
\* scalar constants.
InitialStateScalarConstants(f) ==
    { u \in f.pastValueInit \cap LeafUids(f) :
        LeafOf(f, u).kind = "Constant" /\ TotalSize(LeafOf(f, u).shape) = 1 }

\* The uid a loaded model gives to a constant it creates while loading.
FreshUid(u) == u + NumParams + 4

\* SaveAsLegacyModel: the serialized graph holds every leaf but the scalar
\* constant initial states, which are kept as an attribute of their node.
SaveAsLegacyModel(f) ==
    LET dropped == InitialStateScalarConstants(f) IN
    [kind |-> "model",
     leaves |-> { x \in f.leaves : x.uid \notin dropped },
     value |-> [u \in (DOMAIN f.value) \ dropped |-> f.value[u]],
     pastValueInit |-> f.pastValueInit \ dropped,
     scalarInit |-> [u \in dropped |-> f.value[u]],
     state |-> 0]

\* LoadLegacyModel: the function rebuilt from the file; a scalar initial state
\* comes back as a new constant.
LoadLegacyModel(file) ==
    LET fresh == { FreshUid(u) : u \in DOMAIN file.scalarInit } IN
    [leaves |-> file.leaves \cup { MkLeaf(u, "Constant", <<>>, 0, FALSE) : u \in fresh },
     value |-> [u \in (DOMAIN file.value) \cup fresh |->
                  IF u \in DOMAIN file.value THEN file.value[u]
                  ELSE file.scalarInit[CHOOSE w \in DOMAIN file.scalarInit : FreshUid(w) = u]],
     pastValueInit |-> file.pastValueInit \cup fresh]

\* The trainer-state file: the learner's checkpoint state (operator<< of Dictionary).
CheckpointFile(learnerCheckpointState) ==
    [kind |-> "ckp", leaves |-> {}, value |-> <<>>, pastValueInit |-> {},
     scalarInit |-> <<>>, state |-> learnerCheckpointState]

\* ------------------------------------------------------------ SaveCheckpoint
\* Trainer::SaveCheckpoint(modelFilePath): the model file is written first, the
\* learner count is checked next, the trainer-state file is written last.
\* (m_parameterLearners is never empty here: the model holds parameters and
\* the constructor accepted the learners.)
SaveCheckpoint(modelFilePath) ==
    LET modelFile == SaveAsLegacyModel(TrainerFunction(hasPastValue, leafValue))
        trainerStateCheckpointFilePath == GetTrainerStateCheckpointFilePath(modelFilePath)
    IN
    /\ ctorOutcome = "ok"
    /\ IF Cardinality(m_parameterLearners) > 1
       THEN /\ fs' = [fs EXCEPT ![modelFilePath] = modelFile]
            /\ lastCall' = [NoCall EXCEPT !.op = "SaveCheckpoint", !.path = modelFilePath,
                                          !.outcome = "LogicError"]
            /\ saved' = [p \in FilePaths |-> NoSnapshot]
       ELSE \E learner \in m_parameterLearners :
            /\ fs' = [fs EXCEPT ![modelFilePath] = modelFile,
                                ![trainerStateCheckpointFilePath] =
                                     CheckpointFile(learnerState[learner])]
            /\ lastCall' = [NoCall EXCEPT !.op = "SaveCheckpoint", !.path = modelFilePath,
                                          !.outcome = "returned"]
            /\ saved' = [p \in FilePaths |->
                           IF p = modelFilePath
                           THEN [valid |-> TRUE, value |-> leafValue,
                                 state |-> learnerState[learner]]
                           ELSE NoSnapshot]
    /\ callLog' = <<>>
    /\ UNCHANGED <<ctorArgs, ctorOutcome, m_parameterLearners, learnerParameters,
                   hasPastValue, leafValue, learnerState, m_prevMinibatchNumSamples>>

\* ----------------------------------------------------- RestoreFromCheckpoint
\* The lambda removePastAndFutureValueInitialStateScalarConstants: the keys
\* left in a uid -> leaf map built from f's leaves.
RemovePastAndFutureValueInitialStateScalarConstants(f) ==
    LeafUids(f) \ InitialStateScalarConstants(f)

\* The lambda areVariablesEquivalent.
AreVariablesEquivalent(left, right) ==
    /\ left.kind = right.kind
    /\ (left.shape = right.shape \/ AsTensorShape(left.shape) = AsTensorShape(right.shape))
    /\ left.dataType = right.dataType
    /\ left.numDynamicAxes = right.numDynamicAxes
    /\ left.needsGradient = right.needsGradient
    /\ left.uid = right.uid
    /\ left.isSparse = right.isSparse

\* A restore that copies the constants only.
CopiesValueConstantsOnly(trainerModelLeafVar) == trainerModelLeafVar.kind = "Constant"

\* trainerModelLeafVar.IsConstant() || trainerModelLeafVar.IsParameter()
CopiesValue(trainerModelLeafVar) ==
    trainerModelLeafVar.kind = "Constant" \/ trainerModelLeafVar.kind = "Parameter"

MinOf(S) == CHOOSE u \in S : \A w \in S : u <= w

\* The loop over trainerModelLeafVariablesMap, a std::map visited in key
\* order: todo are the keys still to visit, loadedKeys the keys of
\* loadedModelLeafVariablesMap, st the trainer's values and the exception raised.
RECURSIVE UpdateLeavesLoop(_, _, _, _, _)
UpdateLeavesLoop(todo, trainerFn, loadedFn, loadedKeys, st) ==
    IF todo = {} THEN st
    ELSE LET uid == MinOf(todo)
             trainerModelLeafVar == LeafOf(trainerFn, uid)
         IN  IF uid \notin loadedKeys
             THEN [st EXCEPT !.error = "out_of_range"]        \* std::map::at
             ELSE IF ~AreVariablesEquivalent(LeafOf(loadedFn, uid), trainerModelLeafVar)
             THEN [st EXCEPT !.error = "InvalidArgument:leaves"]
             ELSE UpdateLeavesLoop(todo \ {uid}, trainerFn, loadedFn, loadedKeys,
                     IF CopiesValue(trainerModelLeafVar)
                     THEN [st EXCEPT !.value[uid] = loadedFn.value[uid]]
                     ELSE st)

\* What RestoreFromCheckpoint does up to the learner check: the trainer's
\* values and the exception raised, if any.
RestoreModel(trainerFn, file) ==
    IF file.kind # "model"
    THEN [value |-> trainerFn.value, error |-> "LoadError"]        \* LoadLegacyModel throws
    ELSE LET loadedFn == LoadLegacyModel(file) IN
         IF Cardinality(trainerFn.leaves) # Cardinality(loadedFn.leaves)
         THEN [value |-> trainerFn.value, error |-> "InvalidArgument:leaves"]
         ELSE UpdateLeavesLoop(RemovePastAndFutureValueInitialStateScalarConstants(trainerFn),
                               trainerFn, loadedFn,
                               RemovePastAndFutureValueInitialStateScalarConstants(loadedFn),
                               [value |-> trainerFn.value, error |-> "none"])

\* Trainer::RestoreFromCheckpoint(modelFilePath): the values are copied leaf by
\* leaf until an exception, if any; the learner count is checked after the
\* copy; reading a trainer-state file that is none fails in the stream.
RestoreFromCheckpoint(modelFilePath) ==
    LET restored == RestoreModel(TrainerFunction(hasPastValue, leafValue), fs[modelFilePath])
        ckpFile == fs[GetTrainerStateCheckpointFilePath(modelFilePath)]
        outcome == IF restored.error # "none" THEN restored.error
                   ELSE IF Cardinality(m_parameterLearners) > 1 THEN "LogicError"
                   ELSE IF ckpFile.kind # "ckp" THEN "CheckpointReadError"
                   ELSE "returned"
    IN
    /\ ctorOutcome = "ok"
    /\ leafValue' = restored.value
    /\ \E firstLearner \in m_parameterLearners :
       /\ learnerState' = IF outcome = "returned"
                          THEN [learnerState EXCEPT ![firstLearner] = ckpFile.state]
                          ELSE learnerState
       /\ lastCall' = [NoCall EXCEPT !.op = "RestoreFromCheckpoint", !.path = modelFilePath,
                                  !.outcome = outcome, !.roundTrip = saved[modelFilePath],
                                  !.before = [valid |-> TRUE, value |-> leafValue,
                                              state |-> learnerState[firstLearner]]]
    /\ saved' = [p \in FilePaths |-> NoSnapshot]
    /\ callLog' = <<>>
    /\ UNCHANGED <<ctorArgs, ctorOutcome, m_parameterLearners, learnerParameters,
                   hasPastValue, m_prevMinibatchNumSamples, fs>>

Save == \E modelFilePath \in ModelPaths : SaveCheckpoint(modelFilePath)

Restore == \E modelFilePath \in ModelPaths : RestoreFromCheckpoint(modelFilePath)

Train == MinibatchesBelow(MaxMinibatches) /\ TrainCall

Next == Train \/ Save \/ Restore

Spec == Init /\ [][Next]_vars

\* The trainers checkpointing supports: those with exactly one learner.
InitOneLearner == Init /\ Cardinality(m_parameterLearners) = 1

SpecOneLearner == InitOneLearner /\ [][Next]_vars

TheLearner == CHOOSE l \in m_parameterLearners : TRUE

C5_AsStated ==
    [][(lastCall'.op = "SaveCheckpoint" /\ Cardinality(m_parameterLearners) > 1)
          => (lastCall'.outcome = "LogicError" /\ fs' = fs)]_vars

\* ------------------------------------------------- checkpoints written elsewhere
\* The fields of a leaf variable and the values each can take.
LeafVariants(x) ==
    { [x EXCEPT !.kind = k] : k \in Kinds }
      \cup { [x EXCEPT !.shape = sh] : sh \in Shapes }
      \cup { [x EXCEPT !.dataType = d] : d \in DataTypes }
      \cup { [x EXCEPT !.numDynamicAxes = n] : n \in 0..2 }
      \cup { [x EXCEPT !.needsGradient = b] : b \in BOOLEAN }
      \cup { [x EXCEPT !.isSparse = b] : b \in BOOLEAN }
      \cup { [x EXCEPT !.uid = ExtraUid] }

\* Leaf sets one step away from the trainer's: a leaf changed in one field or
\* given another uid, a leaf missing, a leaf more.
ForeignLeafSets(leaves) ==
    { (leaves \ {x}) \cup {y} : x \in leaves, y \in UNION { LeafVariants(z) : z \in leaves } }
      \cup { leaves \ {x} : x \in leaves }
      \cup { leaves \cup { MkLeaf(ExtraUid, "Constant", <<2>>, 0, FALSE) } }

\* The functions another program may have saved: such leaves, every value v.
ForeignFunctions(pastValue, v) ==
    { [leaves |-> ls, value |-> [u \in ValuedUids(ls) |-> v],
       pastValueInit |-> (IF pastValue THEN {InitStateUid} ELSE {}) \cap { x.uid : x \in ls }] :
        ls \in { l \in ForeignLeafSets(TrainerLeaves(pastValue)) :
                   \A x, y \in l : x.uid = y.uid => x = y } }

\* Another program saves a checkpoint under a path the trainer will read.
ExternalWriteCheckpoint(modelFilePath, f, learnerCheckpointState) ==
    /\ fs' = [fs EXCEPT ![modelFilePath] = SaveAsLegacyModel(f),
                        ![GetTrainerStateCheckpointFilePath(modelFilePath)] =
                             CheckpointFile(learnerCheckpointState)]
    /\ lastCall' = [NoCall EXCEPT !.op = "ExternalWrite", !.path = modelFilePath]
    /\ saved' = [p \in FilePaths |-> NoSnapshot]
    /\ callLog' = <<>>
    /\ UNCHANGED <<ctorArgs, ctorOutcome, m_parameterLearners, learnerParameters,
                   hasPastValue, leafValue, learnerState, m_prevMinibatchNumSamples>>

\* It does so before the trainer's first call.
ExternalWrite ==
    /\ \A p \in FilePaths : fs[p].kind = "none"
    /\ lastCall.op = "none"
    /\ \E modelFilePath \in ModelPaths, v \in Values, st \in 0..MaxMinibatches :
         \E f \in ForeignFunctions(hasPastValue, v) :
           ExternalWriteCheckpoint(modelFilePath, f, st)

NextForeign == ExternalWrite \/ Restore

\* A trainer restoring from checkpoints that other programs wrote.
SpecForeign == Init /\ [][NextForeign]_vars

\* The model the last RestoreFromCheckpoint loaded, and the trainer's own.
LoadedFn == LoadLegacyModel(fs[lastCall.path])
TrainerFn == TrainerFunction(hasPastValue, leafValue)

\* A trainer leaf the comparison exempts: a scalar constant that is the
\* initial state of a PastValue / FutureValue function.
IsExemptLeaf(t) ==
    t.uid \in TrainerFn.pastValueInit /\ t.kind = "Constant" /\ TotalSize(t.shape) = 1

\* The loaded model's leaves do not match the trainer's, in the words of C4.
LeavesDoNotMatch ==
    \/ Cardinality(TrainerFn.leaves) # Cardinality(LoadedFn.leaves)
    \/ \E t \in TrainerFn.leaves :
          /\ ~IsExemptLeaf(t)
          /\ \/ ~\E x \in LoadedFn.leaves : x.uid = t.uid
             \/ \E x \in LoadedFn.leaves :
                   /\ x.uid = t.uid
                   /\ \/ x.kind # t.kind
                      \/ x.shape # t.shape
                      \/ x.dataType # t.dataType
                      \/ x.numDynamicAxes # t.numDynamicAxes
                      \/ x.needsGradient # t.needsGradient
                      \/ x.isSparse # t.isSparse

\* C4 (as stated): RestoreFromCheckpoint raises InvalidArgument whenever the
\* loaded model's leaf variables do not match the trainer model's.
C4_AsStated ==
    (/\ lastCall.op = "RestoreFromCheckpoint"
     /\ fs[lastCall.path].kind = "model"
     /\ LeavesDoNotMatch) => IsInvalidArgument(lastCall.outcome)

====
